---------------------------- MODULE Spec2Model ----------------------------
(***************************************************************************)
(* Client-side session and authorization layer of the LLM usage tracker    *)
(* UI: the axios request/response hooks (services/api), the AuthContext    *)
(* controller, the Login page, the Header, the ProtectedRoute gate and the *)
(* analytics query planner of the Dashboard / Analytics pages.             *)
(*                                                                         *)
(* JavaScript runs one task at a time.  A backend response is delivered in *)
(* two steps that nothing can interleave: the response hook of the axios   *)
(* instance (Respond), then the continuation of the async function that    *)
(* awaited the call (Continue...).                                         *)
(*                                                                         *)
(* Six specifications share the definitions.  Spec follows the session:    *)
(* store, controller, gateway, routing; the state of the page components   *)
(* stays at its initial values there.  GateSpec renders one gate for every *)
(* input it can get.  ViewSpec follows the state of the analytics pages    *)
(* (Dashboard, Analytics) for an identity that is Authenticated, and       *)
(* EventsSpec that of the Events page.  RangeSpec resolves every date      *)
(* range selector against every clock, and NormSpec normalizes and renders *)
(* every backend response of a bounded family.                             *)
(***************************************************************************)
EXTENDS Integers, Sequences, FiniteSets, Bags, TLC

\* ------------------------------------------------------------- bounds
\* Number of requests that may be in flight at once.
MaxInflight == 2

\* The last day the clock may show, counted from 2023-01-01 (day 1100 is
\* 2026-01-05).
LastDay == 1100

\* Number of optional fields a backend response may leave out at once.
MaxAbsent == 2

\* Longest topCustomers list of a backend response.
MaxCustomers == 6

\* Largest count of one category of a usage mapping.
MaxCount == 2

\* Last page of the events table.
MaxPage == 1

\* ------------------------------------------------------------- values
\* JavaScript null / undefined / a missing JSON field.
Null == "null"

\* A JavaScript truthiness test on a string-or-null value.
Truthy(s) == s # Null /\ s # ""

Roles == {"USER", "ADMIN", "SUPERADMIN"}

\* AuthResponse: the fields the client logic reads.
AuthResponse(token, role, customerId) ==
    [token |-> token, role |-> role, customerId |-> customerId]

\* No identity (user === null).
NullUser == AuthResponse(Null, Null, Null)

\* The backend's accounts: a tenant's user, another tenant's admin, the
\* superadmin (no tenant: the Header shows 'All Customers' for it) and a
\* user whose customerId the backend left empty.
Accounts ==
    {AuthResponse("t1", "USER", "c1"),
     AuthResponse("t2", "ADMIN", "c2"),
     AuthResponse("t3", "SUPERADMIN", Null),
     AuthResponse("t4", "USER", Null)}

\* App: the routes (the entry point and three of the protected ones).
Routes == {"/login", "/", "/users", "/customers"}

\* HTTP outcomes of a call: success, authority rejection, another backend
\* failure, and no response at all (network failure).
Statuses == {"200", "401", "500", "net"}

\* ------------------------------------------------------------- dates
\* A Date is an instant, counted in hours since 2023-01-01T00:00Z; a
\* calendar date is <<year, month, day>>.  Time zones are whole hours
\* ahead of UTC and do not change during the run (no daylight saving).
IsLeap(y) == (y % 4 = 0 /\ y % 100 # 0) \/ y % 400 = 0

DaysInMonth(y, m) ==
    IF m = 2 THEN (IF IsLeap(y) THEN 29 ELSE 28)
    ELSE IF m \in {4, 6, 9, 11} THEN 30 ELSE 31

DaysInYear(y) == IF IsLeap(y) THEN 366 ELSE 365

RECURSIVE DaysBeforeYear(_)
DaysBeforeYear(y) ==
    IF y <= 2023 THEN 0 ELSE DaysBeforeYear(y - 1) + DaysInYear(y - 1)

RECURSIVE DaysBeforeMonth(_, _)
DaysBeforeMonth(y, m) ==
    IF m <= 1 THEN 0 ELSE DaysBeforeMonth(y, m - 1) + DaysInMonth(y, m - 1)

\* The number of the day y-m-d, counted from 2023-01-01.
DayNumber(y, m, d) == DaysBeforeYear(y) + DaysBeforeMonth(y, m) + d - 1

RECURSIVE YearOfDay(_, _)
YearOfDay(day, y) ==
    IF day < DaysInYear(y) THEN <<y, day>>
    ELSE YearOfDay(day - DaysInYear(y), y + 1)

RECURSIVE MonthOfDay(_, _, _)
MonthOfDay(day, y, m) ==
    IF day < DaysInMonth(y, m) THEN <<y, m, day + 1>>
    ELSE MonthOfDay(day - DaysInMonth(y, m), y, m + 1)

\* The calendar date of a day number.
CivilDate(day) ==
    LET yd == YearOfDay(day, 2023) IN MonthOfDay(yd[2], yd[1], 1)

\* The local day an instant falls on in a time zone.
LocalDay(date, zone) == (date + zone) \div 24

\* The local midnight that begins a day.
LocalMidnight(day, zone) == day * 24 - zone

\* date-fns format(date, 'yyyy-MM-dd'): the local calendar date.
FormatDate(date, zone) == CivilDate(LocalDay(date, zone))

\* date-fns subDays: the same local time n days earlier.
SubDays(date, n) == date - 24 * n

\* date-fns startOfMonth / endOfMonth / startOfYear / endOfYear: the first
\* and the last hour of the local month or year of the date.
StartOfMonth(date, zone) ==
    LET c == FormatDate(date, zone) IN
      LocalMidnight(DayNumber(c[1], c[2], 1), zone)

EndOfMonth(date, zone) ==
    LET c == FormatDate(date, zone) IN
      LocalMidnight(DayNumber(c[1], c[2], DaysInMonth(c[1], c[2])), zone) + 23

StartOfYear(date, zone) ==
    LET c == FormatDate(date, zone) IN
      LocalMidnight(DayNumber(c[1], 1, 1), zone)

EndOfYear(date, zone) ==
    LET c == FormatDate(date, zone) IN
      LocalMidnight(DayNumber(c[1], 12, 31), zone) + 23

\* new Date('2024-01-01'): a date-only string is read as UTC midnight.
ParseDateOnly(y, m, d) == DayNumber(y, m, d) * 24

\* calculateDateRange (Dashboard and Analytics): the start and end of a
\* selector, resolved against today = new Date() and formatted.
CalculateDateRange(range, today, zone) ==
    LET start ==
          IF range = "7days" THEN SubDays(today, 7)
          ELSE IF range = "30days" THEN SubDays(today, 30)
          ELSE IF range = "thismonth" THEN StartOfMonth(today, zone)
          ELSE IF range = "thisyear" THEN StartOfYear(today, zone)
          ELSE IF range = "alltime" THEN ParseDateOnly(2024, 1, 1)
          ELSE SubDays(today, 30)
        end ==
          IF range = "thismonth" THEN EndOfMonth(today, zone)
          ELSE IF range = "thisyear" THEN EndOfYear(today, zone)
          ELSE today
    IN [start |-> FormatDate(start, zone), end |-> FormatDate(end, zone)]

\* The values of the Time Period selector.
RangeSelectors == {"7days", "30days", "thismonth", "thisyear", "alltime"}

\* No date yet (the '' a useState starts with).
NoDate == <<>>

VARIABLES
    lsToken,        \* localStorage['token']
    lsUser,         \* localStorage['user'] (parsed)
    user,           \* AuthContext: the authenticated identity, or NullUser
    isLoading,      \* AuthContext: TRUE while Initializing
    location,       \* the router's current path
    visited,        \* the paths in this document's session history
    hrefTarget,     \* a path assigned to window.location.href, load pending
    inflight,       \* the bag of calls sent and not yet answered
    sent,           \* the last request put on the wire
    settling,       \* the response the hook has settled, awaiting its caller
    loginError,     \* Login page: error
    loginIsLoading, \* Login page: isLoading
    cause,          \* history: what put the controller in its current state
    gateProps,      \* ProtectedRoute: the props of the rendered gate
    gateOut,        \* ProtectedRoute: the element the gate returned
    dateRange,      \* Dashboard / Analytics: dateRange
    analyticsData,  \* Dashboard / Analytics: analyticsData
    loading,        \* Dashboard / Analytics: loading
    error,          \* Dashboard / Analytics: error
    addingEvents,   \* Dashboard: addingEvents
    startDate,      \* Dashboard / Analytics: startDate
    endDate,        \* Dashboard / Analytics: endDate
    now,            \* the browser's clock: hours since 2023-01-01T00:00Z
    tz,             \* the browser's time zone: hours ahead of UTC
    payload,        \* the data of the analytics response being transformed
    display,        \* what the render derives from analyticsData
    filters,        \* Events: filters
    page            \* Events: page

vars == <<lsToken, lsUser, user, isLoading, location, visited, hrefTarget,
          inflight, sent, settling, loginError, loginIsLoading, cause>>

\* The state of one rendered gate and of the analytics page component.
gateVars == <<gateProps, gateOut>>
viewVars == <<dateRange, analyticsData, loading, error, addingEvents>>
clockVars == <<now, tz>>
rangeVars == <<startDate, endDate>>
dataVars == <<payload, display>>
eventsVars == <<filters, page>>
restVars == <<clockVars, dataVars, eventsVars>>
otherVars == <<rangeVars, restVars>>
pageVars == <<gateVars, viewVars, otherVars>>
allVars == <<vars, pageVars>>

\* ------------------------------------------------------------ requests
\* A request as it goes on the wire: the call it belongs to, its
\* Authorization header and its customerId parameter.
Request(kind, auth, customerId) ==
    [kind |-> kind, auth |-> auth, customerId |-> customerId]

\* A pending call: its kind, for a login whether the Login component
\* instance that awaits it is still mounted, and (history) whether a
\* logout was issued while it was pending.
Call(kind, mounted) ==
    [kind |-> kind, mounted |-> mounted, superseded |-> FALSE]

Free == Call("free", FALSE)

HasFree == BagCardinality(inflight) < MaxInflight

Send(call) == inflight (+) SetToBag({call})

Copies(reqs, r) == IF r \in BagToSet(reqs) THEN reqs[r] ELSE 0

\* --------------------------------------------------- Request Gateway
\* No Authorization header on the request.
NoHeader == Null

\* The mutation of RequestInterceptor for C10: the header is attached
\* without the test on the token.
RequestInterceptorNoTest(token) == "Bearer " \o token

\* api.interceptors.request: the header the outbound hook attaches, given
\* what localStorage.getItem('token') returns.
RequestInterceptor(token) ==
    IF Truthy(token) THEN "Bearer " \o token ELSE NoHeader

\* A backend answer as axios hands it to the response hooks.
Response(status, data, message) ==
    [status |-> status, data |-> data, message |-> message]

\* A settled promise: fulfilled with the response or rejected with the error.
Settled(state, status, data, message) ==
    [state |-> state, status |-> status, data |-> data, message |-> message]

\* The outcome of the response hook: the store and window.location.href
\* after it, and the promise it returns.
HookResult(token, usr, href, settled) ==
    [token |-> token, user |-> usr, href |-> href, settled |-> settled]

\* The mutation of ResponseInterceptor for C2: the session is cleared and
\* the redirect forced on every failure.
ResponseInterceptorAnyFailure(resp, token, usr, href) ==
    IF resp.status = "200"
    THEN HookResult(token, usr, href,
             Settled("fulfilled", resp.status, resp.data, resp.message))
    ELSE HookResult(Null, NullUser, "/login",
             Settled("rejected", resp.status, resp.data, resp.message))

\* The mutation of ResponseInterceptor for C3: a 401 redirects and leaves
\* the store as it is.
ResponseInterceptorKeepStore(resp, token, usr, href) ==
    IF resp.status = "200"
    THEN HookResult(token, usr, href,
             Settled("fulfilled", resp.status, resp.data, resp.message))
    ELSE HookResult(token, usr,
             IF resp.status = "401" THEN "/login" ELSE href,
             Settled("rejected", resp.status, resp.data, resp.message))

\* The mutation of ResponseInterceptor for C4: the rejected handler does
\* not reject again, so the caller sees a fulfilled call.
ResponseInterceptorSwallow(resp, token, usr, href) ==
    IF resp.status = "200"
    THEN HookResult(token, usr, href,
             Settled("fulfilled", resp.status, resp.data, resp.message))
    ELSE HookResult(IF resp.status = "401" THEN Null ELSE token,
             IF resp.status = "401" THEN NullUser ELSE usr,
             IF resp.status = "401" THEN "/login" ELSE href,
             Settled("fulfilled", resp.status, resp.data, resp.message))

\* The mutation of ResponseInterceptor for C9: a 401 removes the token and
\* leaves the identity.
ResponseInterceptorTokenOnly(resp, token, usr, href) ==
    IF resp.status = "200"
    THEN HookResult(token, usr, href,
             Settled("fulfilled", resp.status, resp.data, resp.message))
    ELSE HookResult(IF resp.status = "401" THEN Null ELSE token, usr,
             IF resp.status = "401" THEN "/login" ELSE href,
             Settled("rejected", resp.status, resp.data, resp.message))

\* api.interceptors.response: the fulfilled handler returns the response;
\* the rejected handler removes both keys and assigns window.location.href
\* on status 401, then rejects with the same error.
ResponseInterceptor(resp, token, usr, href) ==
    IF resp.status = "200"
    THEN HookResult(token, usr, href,
             Settled("fulfilled", resp.status, resp.data, resp.message))
    ELSE HookResult(IF resp.status = "401" THEN Null ELSE token,
             IF resp.status = "401" THEN NullUser ELSE usr,
             IF resp.status = "401" THEN "/login" ELSE href,
             Settled("rejected", resp.status, resp.data, resp.message))

\* The mutation of ApiData for C7: a failed call is caught and an empty
\* result returned.
ApiDataCaught(settled) ==
    Settled("fulfilled", settled.status, settled.data, settled.message)

\* apiService.login / getCurrentUser / getAnalytics: await the call and
\* return response.data; a rejection propagates to the caller.
ApiData(settled) ==
    Settled(settled.state, settled.status, settled.data, settled.message)

\* apiService.logout: awaits the call and returns nothing; a rejection
\* propagates to the caller.
ApiLogout(settled) ==
    Settled(settled.state, settled.status, NullUser, settled.message)

\* What the backend may answer to a request with a given status: the
\* account of the submitted credentials on a successful login, a body with
\* or without a message on a failure, nothing on a network failure.
BackendResponses(req, status) ==
    IF status = "200"
    THEN IF req.kind = "login"
         THEN {Response(status, a, Null) : a \in Accounts}
         ELSE {Response(status, NullUser, Null)}
    ELSE IF status = "net"
    THEN {Response(status, NullUser, Null)}
    ELSE {Response(status, NullUser, m) : m \in {Null, "server-message"}}

\* No response is being delivered.
Idle == [req |-> Free, resp |-> Response(Null, NullUser, Null),
         settled |-> Settled(Null, Null, NullUser, Null)]

\* --------------------------------------------------- Access Gate
\* The mutation of ProtectedRoute for C12: a role below ADMIN on an
\* admin route is sent to the entry point.
ProtectedRouteAdminToLogin(isLoadingNow, isAuthenticated, role, requireAdmin, requireSuperAdmin) ==
    IF isLoadingNow THEN "spinner"
    ELSE IF ~isAuthenticated THEN "to-login"
    ELSE IF requireAdmin /\ role # "ADMIN" /\ role # "SUPERADMIN" THEN "to-login"
    ELSE IF requireSuperAdmin /\ role # "SUPERADMIN" THEN "to-root"
    ELSE "children"

\* The mutation of ProtectedRoute for C13: the superadmin test also lets
\* ADMIN through.
ProtectedRouteSuperAsAdmin(isLoadingNow, isAuthenticated, role, requireAdmin, requireSuperAdmin) ==
    IF isLoadingNow THEN "spinner"
    ELSE IF ~isAuthenticated THEN "to-login"
    ELSE IF requireAdmin /\ role # "ADMIN" /\ role # "SUPERADMIN" THEN "to-root"
    ELSE IF requireSuperAdmin /\ role # "ADMIN" /\ role # "SUPERADMIN" THEN "to-root"
    ELSE "children"

\* The mutation of ProtectedRoute for C14: the admin test names ADMIN only.
ProtectedRouteAdminExact(isLoadingNow, isAuthenticated, role, requireAdmin, requireSuperAdmin) ==
    IF isLoadingNow THEN "spinner"
    ELSE IF ~isAuthenticated THEN "to-login"
    ELSE IF requireAdmin /\ role # "ADMIN" THEN "to-root"
    ELSE IF requireSuperAdmin /\ role # "SUPERADMIN" THEN "to-root"
    ELSE "children"

\* The mutation of ProtectedRoute for C15: the authentication test comes
\* before the loading test.
ProtectedRouteAuthFirst(isLoadingNow, isAuthenticated, role, requireAdmin, requireSuperAdmin) ==
    IF ~isAuthenticated THEN "to-login"
    ELSE IF isLoadingNow THEN "spinner"
    ELSE IF requireAdmin /\ role # "ADMIN" /\ role # "SUPERADMIN" THEN "to-root"
    ELSE IF requireSuperAdmin /\ role # "SUPERADMIN" THEN "to-root"
    ELSE "children"

\* The mutation of ProtectedRoute for C16: the tests name the role to
\* refuse instead of the roles to admit.
ProtectedRouteDenyList(isLoadingNow, isAuthenticated, role, requireAdmin, requireSuperAdmin) ==
    IF isLoadingNow THEN "spinner"
    ELSE IF ~isAuthenticated THEN "to-login"
    ELSE IF requireAdmin /\ role = "USER" THEN "to-root"
    ELSE IF requireSuperAdmin /\ (role = "USER" \/ role = "ADMIN") THEN "to-root"
    ELSE "children"

\* ProtectedRoute: what the gate renders.
ProtectedRoute(isLoadingNow, isAuthenticated, role, requireAdmin, requireSuperAdmin) ==
    IF isLoadingNow THEN "spinner"
    ELSE IF ~isAuthenticated THEN "to-login"
    ELSE IF requireAdmin /\ role # "ADMIN" /\ role # "SUPERADMIN" THEN "to-root"
    ELSE IF requireSuperAdmin /\ role # "SUPERADMIN" THEN "to-root"
    ELSE "children"

\* The element a gate returns.
Element(render, to, from, replace) ==
    [render |-> render, to |-> to, from |-> from, replace |-> replace]

\* Nothing rendered yet.
NoElement == Element("none", Null, Null, FALSE)

\* The mutation of GateElement for C11: the redirect to the entry point
\* carries no state.
GateElementNoState(decision, loc) ==
    IF decision = "to-login" THEN Element("Navigate", "/login", Null, TRUE)
    ELSE IF decision = "to-root" THEN Element("Navigate", "/", Null, TRUE)
    ELSE Element(decision, Null, Null, FALSE)

\* ProtectedRoute: the element returned for a decision at location loc:
\* <Navigate to="/login" state={{ from: location }} replace />,
\* <Navigate to="/" replace />, the spinner or the children.
GateElement(decision, loc) ==
    IF decision = "to-login" THEN Element("Navigate", "/login", loc, TRUE)
    ELSE IF decision = "to-root" THEN Element("Navigate", "/", Null, TRUE)
    ELSE Element(decision, Null, Null, FALSE)

\* App: the flags each route passes to its gate.
RequireAdmin(path) == path = "/users"
RequireSuperAdmin(path) == path = "/customers"

\* AuthContext: isAuthenticated.
IsAuthenticated == user # NullUser

\* What is rendered at the current location: the Login page (not gated) or
\* the gate's decision for a protected route.
Rendered ==
    IF location = "/login" THEN "login-page"
    ELSE ProtectedRoute(isLoading, IsAuthenticated, user.role,
                        RequireAdmin(location), RequireSuperAdmin(location))

\* App: the routes behind a gate.
ProtectedPaths == {"/", "/events", "/analytics", "/customers", "/users"}

\* The navigation that offers the customers to the admin as well.
HeaderNavItemsAdminCustomers(role) ==
    {"/", "/events", "/analytics"}
        \cup (IF role = "ADMIN" \/ role = "SUPERADMIN"
              THEN {"/customers", "/users"} ELSE {})

\* Header.navItems: the paths the Header offers to a role.
HeaderNavItems(role) ==
    {"/", "/events", "/analytics"}
        \cup (IF role = "SUPERADMIN" THEN {"/customers"} ELSE {})
        \cup (IF role = "ADMIN" \/ role = "SUPERADMIN" THEN {"/users"} ELSE {})

\* The offered paths among the routes the session is followed on.
NavItems(role) == HeaderNavItems(role) \cap Routes

\* --------------------------------------------------- Session Store
\* get(): the persisted Session, absent unless both keys are present.
SessionGet(token, usr) ==
    IF Truthy(token) /\ usr # NullUser THEN usr ELSE NullUser

\* --------------------------------------------------- Query Planner
\* The mutation of AnalyticsCustomerId for C17: the role is not tested.
AnalyticsCustomerIdAnyRole(u) ==
    IF u # NullUser /\ Truthy(u.customerId) THEN u.customerId ELSE Null

\* loadAnalytics: the customerId of the analytics request (Null: the
\* parameter is not set, which the backend reads as all tenants).
AnalyticsCustomerId(u) ==
    IF u # NullUser /\ u.role # "SUPERADMIN" /\ Truthy(u.customerId)
    THEN u.customerId ELSE Null


\* --------------------------------------------------- initial states
\* localStorage survives from an earlier visit: empty, or the token and
\* the identity a login wrote together.
Persisted == {<<Null, NullUser>>} \cup {<<a.token, a>> : a \in Accounts}

\* The first page load, at any path: the AuthProvider has mounted with its
\* initial state (no user, isLoading), its mount effect has not run yet.
\* No gate has rendered: the default props, no element.
GateUnrendered ==
    /\ gateProps = [requireAdmin |-> FALSE, requireSuperAdmin |-> FALSE]
    /\ gateOut = NoElement

\* Dashboard / Analytics: the initial values of the component's state.
ViewInitial ==
    /\ dateRange = "30days"
    /\ analyticsData = Null
    /\ loading = TRUE
    /\ error = Null
    /\ addingEvents = FALSE
    /\ startDate = NoDate
    /\ endDate = NoDate

\* The clock where a specification does not follow it: noon UTC of
\* 2025-03-15, in the UTC zone.
ClockFixed ==
    /\ now = DayNumber(2025, 3, 15) * 24 + 12
    /\ tz = 0

\* No response data, nothing derived, the Events filters and page as
\* useState starts them.
DataInitial ==
    /\ payload = << >>
    /\ display = << >>
    /\ filters = [customerId |-> ""]
    /\ page = 0

Init ==
    /\ GateUnrendered
    /\ ViewInitial
    /\ ClockFixed
    /\ DataInitial
    /\ \E p \in Persisted : lsToken = p[1] /\ lsUser = p[2]
    /\ user = NullUser
    /\ isLoading = TRUE
    /\ location \in Routes
    /\ visited = {location}
    /\ hrefTarget = Null
    /\ inflight = EmptyBag
    /\ sent = Request("none", Null, Null)
    /\ settling = Idle
    /\ loginError = ""
    /\ loginIsLoading = FALSE
    /\ cause = "start"

\* No task runs between a response hook and the continuation of its
\* caller, and none before the AuthProvider's mount effect.
Ready == ~isLoading /\ settling = Idle

\* The Login component unmounts: its state is dropped, and the pending
\* handleSubmit calls keep running against the unmounted instance.
Orphaned(reqs) ==
    [q \in {[r EXCEPT !.mounted = FALSE] : r \in BagToSet(reqs)} |->
        Copies(reqs, q) + Copies(reqs, [q EXCEPT !.mounted = TRUE])]

\* History: the pending logins see a logout go by.
Superseded(reqs) ==
    [q \in {IF r.kind = "login" THEN [r EXCEPT !.superseded = TRUE] ELSE r :
              r \in BagToSet(reqs)} |->
        Copies(reqs, q) + (IF q.kind = "login"
                           THEN Copies(reqs, [q EXCEPT !.superseded = FALSE])
                           ELSE 0)]

\* The router leaves the current path for another one.
Leave(reqs) == IF location = "/login" THEN Orphaned(reqs) ELSE reqs

\* --------------------------------------------------- Auth Controller
\* restore(): the AuthProvider's mount effect.  A persisted Session is
\* trusted at once and validated in the background by GET /api/auth/me.
AuthRestore ==
    /\ isLoading
    /\ LET s == SessionGet(lsToken, lsUser) IN
         /\ user' = s
         /\ inflight' = IF s # NullUser THEN Send(Call("me", FALSE))
                        ELSE inflight
         /\ sent' = IF s # NullUser
                    THEN Request("me", RequestInterceptor(lsToken), Null)
                    ELSE sent
         /\ cause' = IF s # NullUser THEN "restored" ELSE "no-session"
    /\ isLoading' = FALSE
    /\ UNCHANGED <<lsToken, lsUser, location, visited, hrefTarget, settling,
                   loginError, loginIsLoading>>
    /\ UNCHANGED pageVars

\* logout(): notify the backend without waiting for it, then clear the
\* store and drop the identity.
AuthLogout ==
    /\ HasFree
    /\ inflight' = Superseded(inflight) (+) SetToBag({Call("logout", FALSE)})
    /\ sent' = Request("logout", RequestInterceptor(lsToken), Null)
    /\ lsToken' = Null
    /\ lsUser' = NullUser
    /\ user' = NullUser
    /\ cause' = "logout"

\* --------------------------------------------------- user actions
\* Login.handleSubmit up to its await: clear the error, show the spinner
\* and send the credentials through login() of the AuthContext.
HandleSubmit ==
    /\ Ready
    /\ Rendered = "login-page"
    /\ ~loginIsLoading
    /\ HasFree
    /\ inflight' = Send(Call("login", TRUE))
    /\ sent' = Request("login", RequestInterceptor(lsToken), Null)
    /\ loginError' = ""
    /\ loginIsLoading' = TRUE
    /\ UNCHANGED <<lsToken, lsUser, user, isLoading, location, visited,
                   hrefTarget, settling, cause>>
    /\ UNCHANGED pageVars

\* The mutation of HandleLogout for C6: the local clear waits for the
\* backend's answer, so the click only sends the call.
HandleLogoutAwaited ==
    /\ Ready
    /\ Rendered = "children"
    /\ user # NullUser
    /\ HasFree
    /\ inflight' = Send(Call("logout", FALSE))
    /\ sent' = Request("logout", RequestInterceptor(lsToken), Null)
    /\ UNCHANGED <<lsToken, lsUser, user, isLoading, location, visited,
                   hrefTarget, settling, loginError, loginIsLoading, cause>>
    /\ UNCHANGED pageVars

\* Header.handleLogout: logout() of the AuthContext, then close the menu.
\* The menu is rendered inside a protected page, for a non-null user.
HandleLogout ==
    /\ Ready
    /\ Rendered = "children"
    /\ user # NullUser
    /\ AuthLogout
    /\ UNCHANGED <<isLoading, location, visited, hrefTarget, settling,
                   loginError, loginIsLoading>>
    /\ UNCHANGED pageVars

\* Dashboard.loadAnalytics up to its await (the mount effect, a change of
\* the date range) as the session sees it: build the parameters and send
\* the request.  What it does to the component is in ViewLoadAnalytics.
LoadAnalytics ==
    /\ Ready
    /\ location = "/"
    /\ Rendered = "children"
    /\ HasFree
    /\ inflight' = Send(Call("analytics", FALSE))
    /\ sent' = Request("analytics", RequestInterceptor(lsToken),
                       AnalyticsCustomerId(user))
    /\ UNCHANGED <<lsToken, lsUser, user, isLoading, location, visited,
                   hrefTarget, settling, loginError, loginIsLoading, cause>>
    /\ UNCHANGED pageVars

\* A Header button: navigate(item.path), a new entry of the history.
HeaderNavigate ==
    /\ Ready
    /\ Rendered = "children"
    /\ \E path \in NavItems(user.role) \ {location} :
         /\ location' = path
         /\ visited' = visited \cup {path}
    /\ UNCHANGED <<lsToken, lsUser, user, isLoading, hrefTarget, inflight,
                   sent, settling, loginError, loginIsLoading, cause>>
    /\ UNCHANGED pageVars

\* The browser's back and forward buttons inside the document: the router
\* follows the history, the page is not loaded again.
Traverse ==
    /\ Ready
    /\ \E path \in visited \ {location} :
         location' = path
    /\ inflight' = Leave(inflight)
    /\ loginError' = IF location = "/login" THEN "" ELSE loginError
    /\ loginIsLoading' = IF location = "/login" THEN FALSE ELSE loginIsLoading
    /\ UNCHANGED <<lsToken, lsUser, user, isLoading, visited, hrefTarget,
                   sent, settling, cause>>
    /\ UNCHANGED pageVars

\* The gate's <Navigate replace>: to the entry point when not
\* authenticated, to the root when the role is too low.
GateRedirect ==
    /\ Ready
    /\ Rendered \in {"to-login", "to-root"}
    /\ location' = IF Rendered = "to-login" THEN "/login" ELSE "/"
    /\ visited' = (visited \ {location}) \cup {location'}
    /\ UNCHANGED <<lsToken, lsUser, user, isLoading, hrefTarget, inflight,
                   sent, settling, loginError, loginIsLoading, cause>>
    /\ UNCHANGED pageVars

\* A page load: the browser follows the path assigned to
\* window.location.href, or the user reloads or types an address.  The
\* document and its pending calls are gone; localStorage stays.
PageLoad ==
    /\ settling = Idle
    /\ IF hrefTarget # Null THEN location' = hrefTarget
       ELSE location' \in Routes
    /\ visited' = {location'}
    /\ hrefTarget' = Null
    /\ user' = NullUser
    /\ isLoading' = TRUE
    /\ inflight' = EmptyBag
    /\ loginError' = ""
    /\ loginIsLoading' = FALSE
    /\ cause' = "start"
    /\ UNCHANGED <<lsToken, lsUser, sent, settling>>
    /\ UNCHANGED pageVars

\* --------------------------------------------------- responses
\* The backend answers a pending request and the response hook of the
\* axios instance runs on the answer.
Respond ==
    /\ settling = Idle
    /\ \E req \in BagToSet(inflight) :
         /\ inflight' = inflight (-) SetToBag({req})
         /\ \E st \in Statuses : \E resp \in BackendResponses(req, st) :
              LET r == ResponseInterceptor(resp, lsToken, lsUser, hrefTarget) IN
                /\ lsToken' = r.token
                /\ lsUser' = r.user
                /\ hrefTarget' = r.href
                /\ settling' = [req |-> req, resp |-> resp,
                                settled |-> r.settled]
    /\ UNCHANGED <<user, isLoading, location, visited, sent, loginError,
                   loginIsLoading, cause>>
    /\ UNCHANGED pageVars

\* login() of the AuthContext after its await: store the Session of the
\* response and make it the identity.
AuthLogin(r) ==
    /\ lsToken' = r.data.token
    /\ lsUser' = r.data
    /\ user' = r.data
    /\ cause' = "login"

\* The text handleSubmit shows for a failure:
\* err.response?.data?.message || err.message || 'Login failed'.
ErrorText(r) ==
    IF Truthy(r.message) THEN r.message ELSE "error-message"

\* Login.handleSubmit after its await: navigate('/') once login() has
\* returned; show the failure when it has thrown; stop the spinner.  The
\* state setters of an unmounted instance do nothing.
ContinueLogin ==
    /\ settling # Idle
    /\ settling.req.kind = "login"
    /\ LET r == ApiData(settling.settled) IN
         IF r.state = "fulfilled"
         THEN /\ AuthLogin(r)
              /\ location' = "/"
              /\ visited' = visited \cup {"/"}
              /\ inflight' = Orphaned(inflight)
              /\ loginError' = ""
              /\ loginIsLoading' = FALSE
         ELSE /\ loginError' = IF settling.req.mounted THEN ErrorText(r)
                               ELSE loginError
              /\ loginIsLoading' = IF settling.req.mounted THEN FALSE
                                   ELSE loginIsLoading
              /\ UNCHANGED <<lsToken, lsUser, user, location, visited,
                             inflight, cause>>
    /\ settling' = Idle
    /\ UNCHANGED <<isLoading, hrefTarget, sent>>
    /\ UNCHANGED pageVars

\* logout() of the AuthContext after the backend call: its failure is
\* swallowed.
ContinueLogout ==
    /\ settling # Idle
    /\ settling.req.kind = "logout"
    /\ ApiLogout(settling.settled).state \in {"fulfilled", "rejected"}
    /\ settling' = Idle
    /\ UNCHANGED <<lsToken, lsUser, user, isLoading, location, visited,
                   hrefTarget, inflight, sent, loginError, loginIsLoading,
                   cause>>
    /\ UNCHANGED pageVars

\* restore() after the background validation: a failure clears the store
\* and drops the identity.
ContinueRestore ==
    /\ settling # Idle
    /\ settling.req.kind = "me"
    /\ IF ApiData(settling.settled).state = "rejected"
       THEN /\ lsToken' = Null
            /\ lsUser' = NullUser
            /\ user' = NullUser
            /\ cause' = "validation-failed"
       ELSE UNCHANGED <<lsToken, lsUser, user, cause>>
    /\ settling' = Idle
    /\ UNCHANGED <<isLoading, location, visited, hrefTarget, inflight,
                   sent, loginError, loginIsLoading>>
    /\ UNCHANGED pageVars

\* Dashboard.loadAnalytics after its await, as the session sees it: the
\* call is over.  What it does to the component is in
\* ViewContinueAnalytics.
ContinueAnalytics ==
    /\ settling # Idle
    /\ settling.req.kind = "analytics"
    /\ ApiData(settling.settled).state \in {"fulfilled", "rejected"}
    /\ settling' = Idle
    /\ UNCHANGED <<lsToken, lsUser, user, isLoading, location, visited,
                   hrefTarget, inflight, sent, loginError, loginIsLoading,
                   cause>>
    /\ UNCHANGED pageVars

Next ==
    \/ AuthRestore
    \/ HandleSubmit
    \/ HandleLogout
    \/ LoadAnalytics
    \/ HeaderNavigate
    \/ Traverse
    \/ GateRedirect
    \/ PageLoad
    \/ Respond
    \/ ContinueLogin
    \/ ContinueLogout
    \/ ContinueRestore
    \/ ContinueAnalytics

Spec == Init /\ [][Next]_allVars

TypeOK ==
    /\ lsToken \in {Null} \cup {a.token : a \in Accounts}
    /\ lsUser \in Accounts \cup {NullUser}
    /\ user \in Accounts \cup {NullUser}
    /\ isLoading \in BOOLEAN
    /\ location \in Routes
    /\ visited \subseteq Routes
    /\ hrefTarget \in {Null, "/login"}
    /\ BagCardinality(inflight) <= MaxInflight
    /\ loginIsLoading \in BOOLEAN


\* ------------------------------------------- the gate on its own
\* The gate is a function of what useAuth() and useLocation() return and
\* of its props.  GateSpec renders one gate for every combination of
\* them, then lets the admitted page plan its analytics query.

\* Role values the backend may put in a stored identity: the three the
\* client knows, one it does not, and none at all.
GateRoles == Roles \cup {"GUEST", Null}

\* The identities a gate may see: none, or any role with or without a tenant.
GateUsers ==
    {NullUser} \cup
    {AuthResponse("t1", r, c) : r \in GateRoles, c \in {"c1", Null}}

\* The props a route may pass.
GateProps == [requireAdmin : BOOLEAN, requireSuperAdmin : BOOLEAN]

GateInit ==
    /\ ViewInitial
    /\ ClockFixed
    /\ DataInitial
    /\ gateProps \in GateProps
    /\ gateOut = NoElement
    /\ user \in GateUsers
    /\ lsUser = user
    /\ lsToken = user.token
    /\ isLoading \in BOOLEAN
    /\ location \in ProtectedPaths
    /\ visited = {location}
    /\ hrefTarget = Null
    /\ inflight = EmptyBag
    /\ sent = Request("none", Null, Null)
    /\ settling = Idle
    /\ loginError = ""
    /\ loginIsLoading = FALSE
    /\ cause = "start"

\* ProtectedRoute renders.
GateRender ==
    /\ gateOut = NoElement
    /\ gateOut' = GateElement(
                      ProtectedRoute(isLoading, IsAuthenticated, user.role,
                                     gateProps.requireAdmin,
                                     gateProps.requireSuperAdmin),
                      location)
    /\ UNCHANGED <<vars, gateProps, viewVars, otherVars>>

\* The admitted page is the Dashboard: loadAnalytics builds its request.
GatePlan ==
    /\ gateOut.render = "children"
    /\ sent.kind = "none"
    /\ HasFree
    /\ inflight' = Send(Call("analytics", FALSE))
    /\ sent' = Request("analytics", RequestInterceptor(lsToken),
                       AnalyticsCustomerId(user))
    /\ UNCHANGED <<lsToken, lsUser, user, isLoading, location, visited,
                   hrefTarget, settling, loginError, loginIsLoading, cause,
                   pageVars>>

GateNext ==
    \/ GateRender
    \/ GatePlan

GateSpec == GateInit /\ [][GateNext]_allVars

\* ------------------------------- the analytics pages on their own
\* ViewSpec follows the component state of the Dashboard ("/") and of the
\* Analytics page ("/analytics") for an identity that is Authenticated:
\* the same loadAnalytics in both, handleAddRandomEvents in the Dashboard.
\* A 401 ends the document with a load of /login.

\* The values of the Time Period selector the model follows.
DateRanges == {"30days", "7days"}

\* The pages the Header offers to every role: the two analytics pages and
\* one page without analytics.
ViewRoutes == {"/", "/analytics", "/events"}
ViewPages == {"/", "/analytics"}

\* A pending call of a page: its kind ("analytics", "add-events"), the
\* dateRange its closure captured, whether handleAddRandomEvents awaits
\* it, and whether the component instance that made it is still mounted.
ViewCall(kind, range, chained, mounted) ==
    [kind |-> kind, range |-> range, chained |-> chained, mounted |-> mounted]

\* The page renders the charts and the Time Period selector: it is not
\* loading, shows no error and has data.
SelectorShown ==
    /\ location \in ViewPages
    /\ ~loading
    /\ error = Null
    /\ analyticsData # Null

\* loadAnalytics up to its await, run by a closure that captured range:
\* setLoading(true), setError(null), resolve the range and store its
\* dates, build the parameters, send.  The setters of an unmounted
\* instance do nothing.
ViewLoadAnalytics(reqs, range, chained, mounted) ==
    /\ loading' = IF mounted THEN TRUE ELSE loading
    /\ error' = IF mounted THEN Null ELSE error
    /\ startDate' = IF mounted THEN CalculateDateRange(range, now, tz).start
                    ELSE startDate
    /\ endDate' = IF mounted THEN CalculateDateRange(range, now, tz).end
                  ELSE endDate
    /\ inflight' = reqs (+) SetToBag({ViewCall("analytics", range, chained, mounted)})
    /\ sent' = Request("analytics", RequestInterceptor(lsToken),
                       AnalyticsCustomerId(user))

ViewInit ==
    /\ GateUnrendered
    /\ ClockFixed
    /\ DataInitial
    /\ startDate = CalculateDateRange("30days", now, tz).start
    /\ endDate = CalculateDateRange("30days", now, tz).end
    /\ user \in Accounts
    /\ lsUser = user
    /\ lsToken = user.token
    /\ isLoading = FALSE
    /\ location \in ViewPages
    /\ visited = {location}
    /\ hrefTarget = Null
    /\ settling = Idle
    /\ loginError = ""
    /\ loginIsLoading = FALSE
    /\ cause = "restored"
    /\ dateRange = "30days"
    /\ analyticsData = Null
    /\ loading = TRUE
    /\ error = Null
    /\ addingEvents = FALSE
    /\ inflight = SetToBag({ViewCall("analytics", "30days", FALSE, TRUE)})
    /\ sent = Request("analytics", RequestInterceptor(lsToken),
                      AnalyticsCustomerId(user))

\* A Header button: the page component unmounts, the one of the new path
\* mounts with its initial state and its effect runs loadAnalytics.
ViewNavigate ==
    /\ settling = Idle
    /\ location # "/login"
    /\ \E path \in ViewRoutes \ {location} :
         /\ location' = path
         /\ visited' = visited \cup {path}
         /\ dateRange' = "30days"
         /\ analyticsData' = Null
         /\ addingEvents' = FALSE
         /\ IF path \in ViewPages
            THEN /\ HasFree
                 /\ ViewLoadAnalytics(Orphaned(inflight), "30days", FALSE, TRUE)
            ELSE /\ loading' = TRUE
                 /\ error' = Null
                 /\ startDate' = NoDate
                 /\ endDate' = NoDate
                 /\ inflight' = Orphaned(inflight)
                 /\ sent' = sent
    /\ UNCHANGED <<lsToken, lsUser, user, isLoading, hrefTarget, settling,
                   loginError, loginIsLoading, cause, gateVars, restVars>>

\* handleDateRangeChange and the effect on [dateRange]: the new value is
\* stored and loadAnalytics runs with it.
HandleDateRangeChange ==
    /\ settling = Idle
    /\ SelectorShown
    /\ HasFree
    /\ \E range \in DateRanges \ {dateRange} :
         /\ dateRange' = range
         /\ ViewLoadAnalytics(inflight, range, FALSE, TRUE)
    /\ UNCHANGED <<lsToken, lsUser, user, isLoading, location, visited,
                   hrefTarget, settling, loginError, loginIsLoading, cause,
                   analyticsData, addingEvents, gateVars, restVars>>

\* Dashboard.handleAddRandomEvents up to its first await: the button is
\* rendered for SUPERADMIN next to the selector.
HandleAddRandomEvents ==
    /\ settling = Idle
    /\ SelectorShown
    /\ location = "/"
    /\ user.role = "SUPERADMIN"
    /\ ~addingEvents
    /\ HasFree
    /\ addingEvents' = TRUE
    /\ inflight' = inflight (+)
          SetToBag({ViewCall("add-events", dateRange, TRUE, TRUE)})
    /\ sent' = Request("add-events", RequestInterceptor(lsToken), Null)
    /\ UNCHANGED <<lsToken, lsUser, user, isLoading, location, visited,
                   hrefTarget, settling, loginError, loginIsLoading, cause,
                   dateRange, analyticsData, loading, error, gateVars, otherVars>>

\* handleAddRandomEvents after addRandomEvents: on success it awaits
\* loadAnalytics() of the render it was created in; on failure it shows
\* its own message and re-enables the button.
ViewContinueAddEvents ==
    /\ settling # Idle
    /\ settling.req.kind = "add-events"
    /\ IF ApiData(settling.settled).state = "fulfilled"
       THEN /\ ViewLoadAnalytics(inflight, settling.req.range, TRUE,
                                 settling.req.mounted)
            /\ UNCHANGED addingEvents
       ELSE /\ error' = IF settling.req.mounted THEN "add-events-failed"
                        ELSE error
            /\ addingEvents' = IF settling.req.mounted THEN FALSE
                               ELSE addingEvents
            /\ UNCHANGED <<loading, inflight, sent, rangeVars>>
    /\ settling' = Idle
    /\ UNCHANGED <<lsToken, lsUser, user, isLoading, location, visited,
                   hrefTarget, loginError, loginIsLoading, cause,
                   dateRange, analyticsData, gateVars, restVars>>

\* The mutation of ViewContinueAnalytics for C19: the catch branch also
\* drops the view model.
ViewContinueAnalyticsClearing ==
    /\ settling # Idle
    /\ settling.req.kind = "analytics"
    /\ LET r == ApiData(settling.settled)
           m == settling.req.mounted IN
         /\ analyticsData' = IF ~m THEN analyticsData
                              ELSE IF r.state = "fulfilled"
                              THEN settling.req.range ELSE Null
         /\ error' = IF m /\ r.state = "rejected" THEN ErrorText(r) ELSE error
         /\ loading' = IF m THEN FALSE ELSE loading
         /\ addingEvents' = IF m /\ settling.req.chained THEN FALSE
                            ELSE addingEvents
    /\ settling' = Idle
    /\ UNCHANGED <<lsToken, lsUser, user, isLoading, location, visited,
                   hrefTarget, inflight, sent, loginError, loginIsLoading,
                   cause, dateRange, gateVars, otherVars>>

\* loadAnalytics after its await: setAnalyticsData with the transformed
\* response (the data of the range that was requested), or setError in
\* the catch branch; setLoading(false) in both.  When
\* handleAddRandomEvents awaited it, setAddingEvents(false) follows.
ViewContinueAnalytics ==
    /\ settling # Idle
    /\ settling.req.kind = "analytics"
    /\ LET r == ApiData(settling.settled)
           m == settling.req.mounted IN
         /\ analyticsData' = IF m /\ r.state = "fulfilled"
                              THEN settling.req.range ELSE analyticsData
         /\ error' = IF m /\ r.state = "rejected" THEN ErrorText(r) ELSE error
         /\ loading' = IF m THEN FALSE ELSE loading
         /\ addingEvents' = IF m /\ settling.req.chained THEN FALSE
                            ELSE addingEvents
    /\ settling' = Idle
    /\ UNCHANGED <<lsToken, lsUser, user, isLoading, location, visited,
                   hrefTarget, inflight, sent, loginError, loginIsLoading,
                   cause, dateRange, gateVars, otherVars>>

\* The browser follows window.location.href = '/login': the document, its
\* components and its pending calls are gone.
ViewPageLoad ==
    /\ settling = Idle
    /\ hrefTarget # Null
    /\ location' = hrefTarget
    /\ visited' = {hrefTarget}
    /\ hrefTarget' = Null
    /\ user' = NullUser
    /\ inflight' = EmptyBag
    /\ dateRange' = "30days"
    /\ analyticsData' = Null
    /\ loading' = TRUE
    /\ error' = Null
    /\ addingEvents' = FALSE
    /\ startDate' = NoDate
    /\ endDate' = NoDate
    /\ UNCHANGED <<lsToken, lsUser, isLoading, sent, settling, loginError,
                   loginIsLoading, cause, gateVars, restVars>>

ViewNext ==
    \/ ViewNavigate
    \/ HandleDateRangeChange
    \/ HandleAddRandomEvents
    \/ Respond
    \/ ViewContinueAnalytics
    \/ ViewContinueAddEvents
    \/ ViewPageLoad

ViewSpec == ViewInit /\ [][ViewNext]_allVars

\* ------------------------------------- the pure functions on their own
\* The session where a specification does not follow it: nothing in
\* flight, the identity u (nobody for SessionIdle) on the page.
SessionAt(u, path) ==
    /\ lsToken = u.token
    /\ lsUser = u
    /\ user = u
    /\ isLoading = FALSE
    /\ location = path
    /\ visited = {path}
    /\ hrefTarget = Null
    /\ inflight = EmptyBag
    /\ sent = Request("none", Null, Null)
    /\ settling = Idle
    /\ loginError = ""
    /\ loginIsLoading = FALSE
    /\ cause = "start"

SessionIdle == SessionAt(NullUser, "/")

\* The instants the clock may show: three hours of every day from
\* 2024-01-02 on, and the zones the browser may be in.
ClockDays == DayNumber(2024, 1, 2) .. LastDay
ClockHours == {0, 12, 23}
Zones == {-5, 0, 2}

\* RangeSpec resolves one selector against one clock.
RangeInit ==
    /\ SessionIdle
    /\ GateUnrendered
    /\ DataInitial
    /\ dateRange \in RangeSelectors
    /\ analyticsData = Null
    /\ loading = TRUE
    /\ error = Null
    /\ addingEvents = FALSE
    /\ startDate = NoDate
    /\ endDate = NoDate
    /\ now \in {d * 24 + h : d \in ClockDays, h \in ClockHours}
    /\ tz \in Zones

\* loadAnalytics, lines 111-113: resolve the selector and store the dates.
ResolveRange ==
    /\ startDate = NoDate
    /\ startDate' = CalculateDateRange(dateRange, now, tz).start
    /\ endDate' = CalculateDateRange(dateRange, now, tz).end
    /\ UNCHANGED <<vars, gateVars, viewVars, restVars>>

RangeNext == ResolveRange

RangeSpec == RangeInit /\ [][RangeNext]_allVars

\* ------------------------------------------- the response normalizer
\* A JavaScript object is a function whose domain is the set of the keys
\* that hold a value: an undefined member is a key outside the domain.
\* {} and [] are both the empty function.
Has(o, k) == k \in DOMAIN o

Restrict(o, keys) == [k \in keys |-> o[k]]

\* x || 0 on a number or undefined (0 || 0 is 0).
OrZero(o, k) == IF Has(o, k) THEN o[k] ELSE 0

\* x || {} and x || [] on an object, an array or undefined.
OrEmpty(o, k) == IF Has(o, k) THEN o[k] ELSE << >>

SummaryFields ==
    {"totalEvents", "totalTokens", "totalCost", "totalRevenue",
     "totalProfit", "profitMargin"}

\* The summary that copies only what the payload has.
SummaryPresentOnly(data) == Restrict(data, SummaryFields \cap DOMAIN data)

Summary(data) == [k \in SummaryFields |-> OrZero(data, k)]

DashboardSeriesFields == {"events", "cost", "revenue"}
AnalyticsSeriesFields == {"events", "cost", "revenue", "profit"}

\* A time-series item: date is copied as it is, the numbers default to 0.
SeriesItem(item, fields) ==
    [k \in ({"date"} \cap DOMAIN item) \cup fields |->
        IF k = "date" THEN item[k] ELSE OrZero(item, k)]

MapSeries(list, fields) ==
    [i \in 1 .. Len(list) |-> SeriesItem(list[i], fields)]

\* The customer name that prefers the identifier.
CustomerNameIdFirst(customer) ==
    IF Has(customer, "customerId") /\ customer["customerId"] # ""
    THEN customer["customerId"]
    ELSE IF Has(customer, "organizationName") /\ customer["organizationName"] # ""
    THEN customer["organizationName"]
    ELSE "Unknown"

\* organizationName || customerId || 'Unknown'
CustomerName(customer) ==
    IF Has(customer, "organizationName") /\ customer["organizationName"] # ""
    THEN customer["organizationName"]
    ELSE IF Has(customer, "customerId") /\ customer["customerId"] # ""
    THEN customer["customerId"]
    ELSE "Unknown"

Customer(customer) ==
    [customerName |-> CustomerName(customer),
     totalCost |-> OrZero(customer, "cost"),
     eventCount |-> OrZero(customer, "events")]

\* The customers with the first one moved to the end.
MapCustomersRotated(list) ==
    [i \in 1 .. Len(list) |-> Customer(list[(i % Len(list)) + 1])]

MapCustomers(list) == [i \in 1 .. Len(list) |-> Customer(list[i])]

\* Dashboard: transformedData.
NormalizeDashboard(data) ==
    [summary |-> Summary(data),
     usageByVendor |-> OrEmpty(data, "usageByVendor"),
     usageByModel |-> OrEmpty(data, "usageByModel"),
     usageByApiType |-> OrEmpty(data, "usageByApiType"),
     timeSeriesData |->
         MapSeries(OrEmpty(data, "timeSeriesData"), DashboardSeriesFields),
     topCustomers |-> MapCustomers(OrEmpty(data, "topCustomers"))]

\* Analytics: transformedData.
NormalizeAnalytics(data) ==
    [summary |-> Summary(data),
     usageByVendor |-> OrEmpty(data, "usageByVendor"),
     usageByModel |-> OrEmpty(data, "usageByModel"),
     usageByApiType |-> OrEmpty(data, "usageByApiType"),
     usageByRegion |-> OrEmpty(data, "usageByRegion"),
     usageByEndpoint |-> OrEmpty(data, "usageByEndpoint"),
     usageByUserRole |-> OrEmpty(data, "usageByUserRole"),
     timeSeriesData |->
         MapSeries(OrEmpty(data, "timeSeriesData"), AnalyticsSeriesFields),
     topCustomers |-> MapCustomers(OrEmpty(data, "topCustomers")),
     growthMetrics |-> OrEmpty(data, "growthMetrics"),
     predictions |-> OrEmpty(data, "predictions"),
     efficiencyMetrics |-> OrEmpty(data, "efficiencyMetrics"),
     seasonality |-> OrEmpty(data, "seasonality"),
     anomalies |-> OrEmpty(data, "anomalies")]

Normalize(path, data) ==
    IF path = "/" THEN NormalizeDashboard(data) ELSE NormalizeAnalytics(data)

\* ---------------------------------------------- what the page derives
\* A quotient n / d, kept exact (the last digit of the floating point
\* result is not followed).
Ratio(n, d) == [num |-> n, den |-> d]

RECURSIVE SumOver(_, _)
SumOver(mapping, keys) ==
    IF keys = {} THEN 0
    ELSE LET k == CHOOSE x \in keys : TRUE
         IN mapping[k] + SumOver(mapping, keys \ {k})

\* Object.values(mapping).reduce((a, b) => a + b, 0)
Total(mapping) == SumOver(mapping, DOMAIN mapping)

\* Dashboard: sum > 0 ? (count / sum) * 100 : 0 for every entry.
DashboardChart(mapping) ==
    [k \in DOMAIN mapping |->
        IF Total(mapping) > 0 THEN Ratio(mapping[k] * 100, Total(mapping))
        ELSE Ratio(0, 1)]

\* Analytics: value: percentage, the entry as the view model has it.
AnalyticsChart(mapping) == [k \in DOMAIN mapping |-> Ratio(mapping[k], 1)]

\* The number of customers each page lists.
DashboardTopCustomers == 3
AnalyticsTopCustomers == 5
AnalyticsAnomalies == 5

\* list.slice(0, n)
Slice(list, n) == SubSeq(list, 1, IF Len(list) < n THEN Len(list) ELSE n)

GrowthFields ==
    {"eventsGrowth", "tokensGrowth", "costGrowth", "revenueGrowth",
     "profitGrowth"}

PredictionFields ==
    {"predictedEvents", "predictedTokens", "predictedCost",
     "predictedRevenue", "predictedProfit"}

\* renderGrowth(growthMetrics?.x): 'N/A' for undefined, else the value.
RenderGrowth(metrics, k) ==
    IF Has(metrics, k) THEN [text |-> "value", value |-> metrics[k]]
    ELSE [text |-> "N/A", value |-> 0]

\* formatNumber / formatCurrency(predictions?.x): 0 for undefined.
FormatNumber(o, k) == IF Has(o, k) THEN o[k] ELSE 0

\* The Top Customers card is rendered for the superadmin only.
TopCustomersShown == user.role = "SUPERADMIN"

\* What the Dashboard derives from its view model on a render.
DashboardView(data) ==
    [vendorData |-> DashboardChart(data.usageByVendor),
     modelData |-> DashboardChart(data.usageByModel),
     apiTypeData |-> DashboardChart(data.usageByApiType),
     topCustomers |->
         IF TopCustomersShown
         THEN Slice(data.topCustomers, DashboardTopCustomers) ELSE << >>]

\* What the Analytics page derives from its view model on a render.
AnalyticsView(data) ==
    [vendorData |-> AnalyticsChart(data.usageByVendor),
     modelData |-> AnalyticsChart(data.usageByModel),
     apiTypeData |-> AnalyticsChart(data.usageByApiType),
     topCustomers |->
         IF TopCustomersShown
         THEN Slice(data.topCustomers, AnalyticsTopCustomers) ELSE << >>,
     anomalies |-> Slice(data.anomalies, AnalyticsAnomalies),
     growth |-> [k \in GrowthFields |-> RenderGrowth(data.growthMetrics, k)],
     predictions |->
         [k \in PredictionFields |-> FormatNumber(data.predictions, k)]]

View(path, data) ==
    IF path = "/" THEN DashboardView(data) ELSE AnalyticsView(data)

\* ------------------------------------------ the payloads of the backend
\* AnalyticsResponse with every field supplied.
UsageKeys == {"openai", "anthropic", "google"}

SeriesEntry ==
    [date |-> "2025-03-01", events |-> 4, tokens |-> 90, cost |-> 2,
     revenue |-> 3, profit |-> 1]

Acme ==
    [customerId |-> "c1", organizationName |-> "Acme", events |-> 9,
     tokens |-> 70, cost |-> 5, revenue |-> 8, profit |-> 3,
     profitMargin |-> 37]

\* A customer the backend has no name and no figures for.
Unnamed == [customerId |-> "c2", organizationName |-> ""]

Anomaly ==
    [date |-> "2025-03-02", type |-> "spike", metric |-> "cost",
     description |-> "cost spike"]

FullGrowth ==
    [eventsGrowth |-> 12, tokensGrowth |-> -3, costGrowth |-> 0,
     revenueGrowth |-> 7, profitGrowth |-> -1,
     comparisonPeriod |-> "previous"]

FullPredictions ==
    [predictedEvents |-> 50, predictedTokens |-> 950, predictedCost |-> 14,
     predictedRevenue |-> 22, predictedProfit |-> 8]

FullPayload ==
    [period |-> "30days", startDate |-> "2025-02-13", endDate |-> "2025-03-15",
     totalEvents |-> 40, totalTokens |-> 900, totalCost |-> 12,
     totalRevenue |-> 20, totalProfit |-> 8, profitMargin |-> 40,
     usageByVendor |-> [openai |-> 2, anthropic |-> 1],
     usageByModel |-> [gpt |-> 2, claude |-> 1],
     usageByApiType |-> [chat |-> 1],
     usageByRegion |-> [eu |-> 1, us |-> 2],
     usageByEndpoint |-> [completions |-> 2],
     usageByUserRole |-> [USER |-> 2, ADMIN |-> 1],
     costByVendor |-> [openai |-> 8, anthropic |-> 4],
     timeSeriesData |-> <<SeriesEntry, [SeriesEntry EXCEPT !.date = "2025-03-02"]>>,
     topCustomers |-> <<Acme, Unnamed>>,
     topUsers |-> << >>,
     growthMetrics |-> FullGrowth,
     predictions |-> FullPredictions,
     efficiencyMetrics |-> [costPerEvent |-> 1, revenuePerEvent |-> 2],
     seasonality |-> [weeklyPattern |-> [mon |-> 1]],
     anomalies |-> <<Anomaly>>]

\* The fields AnalyticsResponse marks optional.
OptionalFields == DOMAIN FullPayload \ {"period", "startDate", "endDate"}

RECURSIVE SubsetsUpTo(_, _)
SubsetsUpTo(S, n) ==
    IF n = 0 THEN {{}}
    ELSE LET smaller == SubsetsUpTo(S, n - 1)
         IN smaller \cup {T \cup {x} : T \in smaller, x \in S}

\* Responses that leave out up to MaxAbsent optional fields, and {}.
AbsentPayloads ==
    {Restrict(FullPayload, DOMAIN FullPayload \ S) :
        S \in SubsetsUpTo(OptionalFields, MaxAbsent)}
    \cup {Restrict(FullPayload, {})}

\* Responses with every usage mapping of non-negative counts.
UsageMaps == UNION {[S -> 0 .. MaxCount] : S \in SUBSET UsageKeys}

UsagePayloads ==
    {[FullPayload EXCEPT !.usageByVendor = m, !.usageByModel = m,
                         !.usageByApiType = m] : m \in UsageMaps}

\* Responses with every customer list up to MaxCustomers entries.
CustomerLists == UNION {[1 .. n -> {Acme, Unnamed}] : n \in 0 .. MaxCustomers}

CustomerPayloads ==
    {[FullPayload EXCEPT !.topCustomers = list] : list \in CustomerLists}

\* Responses whose nested objects and items leave out optional members.
NestedPayloads ==
    {[FullPayload EXCEPT !.growthMetrics = Restrict(FullGrowth, S)] :
        S \in SUBSET DOMAIN FullGrowth}
    \cup {[FullPayload EXCEPT !.predictions = Restrict(FullPredictions, S)] :
        S \in SUBSET DOMAIN FullPredictions}
    \cup {[FullPayload EXCEPT !.timeSeriesData =
               <<Restrict(SeriesEntry, {"date"} \cup S), SeriesEntry>>] :
        S \in SUBSET (DOMAIN SeriesEntry \ {"date"})}
    \cup {[FullPayload EXCEPT !.anomalies = [i \in 1 .. n |-> Anomaly]] :
        n \in 0 .. MaxCustomers}

Payloads ==
    AbsentPayloads \cup UsagePayloads \cup CustomerPayloads \cup NestedPayloads

\* NormSpec: one response is normalized and rendered on one page.
NormInit ==
    /\ \E u \in {a \in Accounts : a.customerId # Null \/ a.role = "SUPERADMIN"} :
           \E path \in ViewPages : SessionAt(u, path)
    /\ GateUnrendered
    /\ ViewInitial
    /\ ClockFixed
    /\ payload \in Payloads
    /\ display = << >>
    /\ filters = [customerId |-> ""]
    /\ page = 0

\* loadAnalytics after the await: the response is transformed and stored,
\* and the finally block clears the loading flag.
SetTransformedData ==
    /\ loading
    /\ analyticsData' = Normalize(location, payload)
    /\ loading' = FALSE
    /\ UNCHANGED <<vars, gateVars, dateRange, error, addingEvents, clockVars,
                   rangeVars, payload, display, eventsVars>>

\* The render that follows: the charts and lists derived from the view
\* model.
RenderView ==
    /\ ~loading
    /\ display = << >>
    /\ display' = View(location, analyticsData)
    /\ UNCHANGED <<vars, gateVars, viewVars, clockVars, rangeVars, payload,
                   eventsVars>>

NormNext == SetTransformedData \/ RenderView

NormSpec == NormInit /\ [][NormNext]_allVars

\* ------------------------------------------ the Events page on its own
\* EventsSpec follows the Events page ("/events") for an identity that is
\* Authenticated: its filters, its page and its calls of getEvents.

\* loadEvents: the customerId of the events request: the filter's value,
\* overridden by the tenant of an identity that is not SUPERADMIN and has
\* one.
EventsCustomerId(u, f) ==
    IF u # NullUser /\ u.role # "SUPERADMIN" /\ Truthy(u.customerId)
    THEN u.customerId ELSE f.customerId

\* loadEvents up to its await, run by a closure that captured the filters
\* f: setLoading(true), build the parameters, send.
LoadEvents(f) ==
    /\ loading' = TRUE
    /\ inflight' = Send(Call("events", TRUE))
    /\ sent' = Request("events", RequestInterceptor(lsToken),
                       EventsCustomerId(user, f))

\* The values the Customer filter offers: all customers or one of them.
CustomerChoices == {"", "c1", "c2"}

\* The page has mounted and its effect has run loadEvents.
EventsInit ==
    /\ GateUnrendered
    /\ ClockFixed
    /\ payload = << >>
    /\ display = << >>
    /\ filters = [customerId |-> ""]
    /\ page = 0
    /\ dateRange = "30days"
    /\ analyticsData = Null
    /\ addingEvents = FALSE
    /\ startDate = NoDate
    /\ endDate = NoDate
    /\ user \in Accounts
    /\ lsUser = user
    /\ lsToken = user.token
    /\ isLoading = FALSE
    /\ location = "/events"
    /\ visited = {"/events"}
    /\ hrefTarget = Null
    /\ settling = Idle
    /\ loginError = ""
    /\ loginIsLoading = FALSE
    /\ cause = "restored"
    /\ loading = TRUE
    /\ error = Null
    /\ inflight = SetToBag({Call("events", TRUE)})
    /\ sent = Request("events", RequestInterceptor(lsToken),
                      EventsCustomerId(user, filters))

\* The page is there and no response is being delivered.
EventsReady == location = "/events" /\ settling = Idle /\ hrefTarget = Null

\* The Search button: onClick={loadEvents}.
HandleSearch ==
    /\ EventsReady
    /\ HasFree
    /\ LoadEvents(filters)
    /\ UNCHANGED <<lsToken, lsUser, user, isLoading, location, visited,
                   hrefTarget, settling, loginError, loginIsLoading, cause,
                   gateVars, dateRange, analyticsData, error, addingEvents,
                   rangeVars, clockVars, dataVars, eventsVars>>

\* handleChangePage and the effect on [page, rowsPerPage].
HandleChangePage ==
    /\ EventsReady
    /\ HasFree
    /\ \E p \in (0 .. MaxPage) \ {page} : page' = p
    /\ LoadEvents(filters)
    /\ UNCHANGED <<lsToken, lsUser, user, isLoading, location, visited,
                   hrefTarget, settling, loginError, loginIsLoading, cause,
                   gateVars, dateRange, analyticsData, error, addingEvents,
                   rangeVars, clockVars, dataVars, filters>>

\* handleFilterChange('customerId', value), offered to SUPERADMIN:
\* setFilters and setPage(0); the effect runs loadEvents only when the
\* page changes.
HandleFilterChange ==
    /\ EventsReady
    /\ user.role = "SUPERADMIN"
    /\ \E value \in CustomerChoices \ {filters.customerId} :
         /\ filters' = [filters EXCEPT !.customerId = value]
         /\ page' = 0
         /\ IF page # 0
            THEN HasFree /\ LoadEvents(filters')
            ELSE UNCHANGED <<loading, inflight, sent>>
    /\ UNCHANGED <<lsToken, lsUser, user, isLoading, location, visited,
                   hrefTarget, settling, loginError, loginIsLoading, cause,
                   gateVars, dateRange, analyticsData, error, addingEvents,
                   rangeVars, clockVars, dataVars>>

\* loadEvents after its await: the rows are stored or the failure is
\* shown, and the finally block clears the loading flag.
ContinueEvents ==
    /\ settling # Idle
    /\ settling.req.kind = "events"
    /\ LET r == ApiData(settling.settled) IN
         error' = IF r.state = "rejected" THEN ErrorText(r) ELSE error
    /\ loading' = FALSE
    /\ settling' = Idle
    /\ UNCHANGED <<lsToken, lsUser, user, isLoading, location, visited,
                   hrefTarget, inflight, sent, loginError, loginIsLoading,
                   cause, gateVars, dateRange, analyticsData, addingEvents,
                   otherVars>>

\* The browser follows window.location.href = '/login': the document, its
\* components and its pending calls are gone.
EventsPageLoad ==
    /\ settling = Idle
    /\ hrefTarget # Null
    /\ location' = hrefTarget
    /\ visited' = {hrefTarget}
    /\ hrefTarget' = Null
    /\ user' = NullUser
    /\ inflight' = EmptyBag
    /\ loading' = TRUE
    /\ error' = Null
    /\ filters' = [customerId |-> ""]
    /\ page' = 0
    /\ UNCHANGED <<lsToken, lsUser, isLoading, sent, settling, loginError,
                   loginIsLoading, cause, gateVars, dateRange, analyticsData,
                   addingEvents, rangeVars, clockVars, dataVars>>

EventsNext ==
    \/ HandleSearch
    \/ HandleChangePage
    \/ HandleFilterChange
    \/ Respond
    \/ ContinueEvents
    \/ EventsPageLoad

EventsSpec == EventsInit /\ [][EventsNext]_allVars

\* --------------------------------------------------- observations
\* The state of the Auth Controller.
AuthState ==
    IF isLoading THEN "Initializing"
    ELSE IF IsAuthenticated THEN "Authenticated"
    ELSE "Unauthenticated"

\* A step that puts a request on the wire (the request is sent').
Sends == BagCardinality(inflight') = BagCardinality(inflight) + 1

\* A step in which the response hook runs on an answer (settling').
HookRuns == settling = Idle /\ settling' # Idle

\* A step in which the caller of an answered call continues (settling).
Continues == settling # Idle /\ settling' = Idle

\* --------------------------------------------------- C1
\* C1: every analytics request that loadAnalytics builds for an identity
\* whose role is not SUPERADMIN carries a customerId, and it is the
\* identity's own tenant.
C1_TenantIsolation ==
    [][(Sends /\ sent'.kind = "analytics" /\ user # NullUser
          /\ user.role # "SUPERADMIN")
       => (sent'.customerId # Null /\ sent'.customerId = user.customerId)]_vars

\* --------------------------------------------------- C2
\* C2: when the response hook runs, the token and the identity are removed
\* and window.location.href is set to /login if the status is 401, and the
\* store and href are left as they were if it is anything else; a success
\* is handed on unchanged as a fulfilled call, and every failure (401 or
\* not) as a rejected call with the same error.
C2_InboundHook ==
    [][HookRuns =>
        LET resp == settling'.resp
            out == settling'.settled
        IN  /\ resp.status = "401" =>
                 lsToken' = Null /\ lsUser' = NullUser /\ hrefTarget' = "/login"
            /\ resp.status # "401" => UNCHANGED <<lsToken, lsUser, hrefTarget>>
            /\ out.state = (IF resp.status = "200" THEN "fulfilled"
                            ELSE "rejected")
            /\ out.status = resp.status
            /\ out.data = resp.data
            /\ out.message = resp.message]_vars

\* A 401 on an analytics call has just removed the session of a user the
\* controller still holds, and set the redirect.
C2_Witness ==
    /\ settling.req.kind = "analytics"
    /\ settling.resp.status = "401"
    /\ settling.settled.state = "rejected"
    /\ IsAuthenticated
    /\ lsToken = Null /\ lsUser = NullUser
    /\ hrefTarget = "/login"

\* --------------------------------------------------- C3
\* C3: the step that completes a successful login leaves get() returning
\* the Session of the response; the hook step of a 401 on any call, and the
\* continuation of that call, leave get() absent and the redirect target
\* at /login.
C3_SessionLifecycle ==
    [][/\ (Continues /\ settling.req.kind = "login"
             /\ settling.resp.status = "200")
          => /\ settling.resp.data # NullUser
             /\ SessionGet(lsToken', lsUser') = settling.resp.data
       /\ (HookRuns /\ settling'.resp.status = "401")
          => /\ SessionGet(lsToken', lsUser') = NullUser
             /\ hrefTarget' = "/login"
       /\ (Continues /\ settling.resp.status = "401")
          => /\ SessionGet(lsToken', lsUser') = NullUser
             /\ hrefTarget' = "/login"]_vars

\* A user who logged in has got a 401 on a later call: the session is
\* absent and the redirect set.
C3_Witness ==
    /\ cause = "login"
    /\ IsAuthenticated
    /\ settling.req.kind \in {"analytics", "logout", "login"}
    /\ settling.resp.status = "401"
    /\ SessionGet(lsToken, lsUser) = NullUser
    /\ hrefTarget = "/login"

\* --------------------------------------------------- C4
\* A page load starts the controller again at Initializing; the claim is
\* about the changes of state within one page lifetime.
ListedTransitions ==
    {<<"Initializing", "Authenticated">>,
     <<"Initializing", "Unauthenticated">>,
     <<"Authenticated", "Unauthenticated">>}

\* C4 (as stated): within a page lifetime the only changes of state are
\* Initializing -> Authenticated, Initializing -> Unauthenticated and
\* Authenticated -> Unauthenticated.
C4_ListedTransitionsOnly ==
    [][(AuthState' # AuthState /\ AuthState' # "Initializing")
       => <<AuthState, AuthState'>> \in ListedTransitions]_vars

\* C4 (amended): within a page lifetime the state leaves Initializing only
\* by restore(), goes from Authenticated to Unauthenticated only by a
\* logout or a failed validation of the restored session, and goes from
\* Unauthenticated to Authenticated only in the step that completes a
\* login the backend has answered with success; sending a login changes
\* nothing.
C4_Transitions ==
    [][(AuthState' # AuthState /\ AuthState' # "Initializing")
       => \/ /\ AuthState = "Initializing"
             /\ settling = Idle /\ settling' = Idle
          \/ /\ AuthState = "Authenticated"
             /\ AuthState' = "Unauthenticated"
             /\ \/ Sends /\ sent'.kind = "logout"
                \/ /\ Continues
                   /\ settling.req.kind = "me"
                   /\ settling.resp.status # "200"
          \/ /\ AuthState = "Unauthenticated"
             /\ AuthState' = "Authenticated"
             /\ Continues
             /\ settling.req.kind = "login"
             /\ settling.resp.status = "200"]_vars

\* A login sent from an empty store has been confirmed: the controller,
\* Unauthenticated when the form was submitted, is Authenticated.
C4_Witness ==
    /\ cause = "login"
    /\ AuthState = "Authenticated"
    /\ sent.kind = "login"
    /\ sent.auth = NoHeader
    /\ settling = Idle

C6_LogoutAlwaysClears ==
    [][/\ (Sends /\ sent'.kind = "logout")
          => /\ lsToken' = Null /\ lsUser' = NullUser
             /\ AuthState' = "Unauthenticated"
       /\ ((HookRuns /\ settling'.req.kind = "logout")
             \/ (Continues /\ settling.req.kind = "logout"))
          => /\ lsToken' \in {lsToken, Null}
             /\ lsUser' \in {lsUser, NullUser}
             /\ user' = user
             /\ AuthState' = AuthState]_vars

\* The backend has rejected the logout call with 401; the store is empty
\* and the controller Unauthenticated since the logout.
C6_Witness ==
    /\ cause = "logout"
    /\ settling.req.kind = "logout"
    /\ settling.resp.status = "401"
    /\ lsToken = Null /\ lsUser = NullUser
    /\ AuthState = "Unauthenticated"

\* --------------------------------------------------- C7
\* C7: the restore step makes the controller Authenticated with the
\* persisted Session in the same step that sends GET /api/auth/me (no
\* answer is awaited), or Unauthenticated with nothing sent when no
\* Session is persisted; and the step that handles a failed validation
\* makes it Unauthenticated with the store empty.
C7_Restore ==
    [][/\ (isLoading /\ ~isLoading')
          => IF SessionGet(lsToken, lsUser) # NullUser
             THEN /\ user' = SessionGet(lsToken, lsUser)
                  /\ AuthState' = "Authenticated"
                  /\ Sends /\ sent'.kind = "me"
                  /\ settling' = Idle
             ELSE /\ AuthState' = "Unauthenticated"
                  /\ inflight' = EmptyBag
       /\ (Continues /\ settling.req.kind = "me"
             /\ settling.resp.status # "200")
          => /\ AuthState' = "Unauthenticated"
             /\ lsToken' = Null /\ lsUser' = NullUser]_vars

\* The background validation of a restored session has failed: the
\* controller is Unauthenticated and the store empty.
C7_Witness ==
    /\ cause = "validation-failed"
    /\ AuthState = "Unauthenticated"
    /\ lsToken = Null /\ lsUser = NullUser
    /\ settling = Idle

\* --------------------------------------------------- C8
\* C8: a login that fails (any status but success, or no answer) while the
\* controller is Unauthenticated leaves it Unauthenticated, leaves the
\* store as it was, starts no navigation and sends nothing; the mounted
\* Login page shows a message and stops its spinner.
C8_FailedLoginIsLocal ==
    [][/\ (HookRuns /\ settling'.req.kind = "login"
             /\ settling'.resp.status # "200"
             /\ AuthState = "Unauthenticated")
          => /\ AuthState' = "Unauthenticated"
             /\ UNCHANGED <<lsToken, lsUser, location, hrefTarget>>
       /\ (Continues /\ settling.req.kind = "login"
             /\ settling.resp.status # "200"
             /\ AuthState = "Unauthenticated")
          => /\ AuthState' = "Unauthenticated"
             /\ UNCHANGED <<lsToken, lsUser, location, hrefTarget,
                            inflight, sent>>
             /\ settling.req.mounted
                  => loginError' # "" /\ ~loginIsLoading']_vars

\* --------------------------------------------------- C9
\* C9: in every reachable state the token and the identity are both in
\* the store or both missing; and when either is missing, get() reports
\* absent and the outbound hook attaches no header.
C9_NoPartialSession ==
    /\ (lsToken = Null) <=> (lsUser = NullUser)
    /\ (lsToken = Null \/ lsUser = NullUser)
         => /\ SessionGet(lsToken, lsUser) = NullUser
            /\ RequestInterceptor(lsToken) = NoHeader

\* The hook has removed a restored session on a 401 of its validation:
\* both keys are gone together.
C9_Witness ==
    /\ cause = "restored"
    /\ settling.req.kind = "me"
    /\ settling.resp.status = "401"
    /\ sent.auth # NoHeader
    /\ lsToken = Null /\ lsUser = NullUser

\* --------------------------------------------------- C10
\* C10: every request put on the wire carries 'Bearer t' when the store
\* holds the token t in the state it is sent from, and no Authorization
\* header when the store holds none.
C10_BearerFromStore ==
    [][Sends => IF lsToken # Null
                THEN sent'.auth = "Bearer " \o lsToken
                ELSE sent'.auth = NoHeader]_vars

\* After a logout and a new login, the last request carries the token of
\* the new session.
C10_Witness ==
    /\ cause = "login"
    /\ sent.kind = "analytics"
    /\ lsToken # Null
    /\ sent.auth = "Bearer " \o lsToken
    /\ \E c \in BagToSet(inflight) : c.kind = "logout"

\* --------------------------------------------------- claims C11 - C17
\* The gate has rendered, and the controller is in the named state.
GateRendered == gateOut # NoElement
GateAuthenticated == ~isLoading /\ IsAuthenticated
GateUnauthenticated == ~isLoading /\ ~IsAuthenticated

\* C11: whenever the controller is Unauthenticated (not Initializing) the
\* gate, whatever the route requires, returns a redirect to the entry
\* point /login, never the protected content, and the redirect carries
\* the location that was requested.
C11_UnauthenticatedToLogin ==
    (GateRendered /\ GateUnauthenticated)
        => /\ gateOut.render = "Navigate"
           /\ gateOut.to = "/login"
           /\ gateOut.from = location
           /\ gateOut.render # "children"

C11_Witness ==
    /\ GateRendered /\ GateUnauthenticated
    /\ gateProps.requireSuperAdmin /\ location = "/customers"
    /\ gateOut.from = "/customers"

\* C12: on a route that requires admin-or-above the gate admits only an
\* Authenticated ADMIN or SUPERADMIN (and admits them when nothing more
\* is required); an Authenticated identity with any other role is
\* redirected to the root, not to the entry point.
C12_AdminOrAbove ==
    (GateRendered /\ gateProps.requireAdmin)
        => /\ gateOut.render = "children"
                => GateAuthenticated /\ user.role \in {"ADMIN", "SUPERADMIN"}
           /\ (GateAuthenticated /\ user.role \in {"ADMIN", "SUPERADMIN"}
                  /\ ~gateProps.requireSuperAdmin)
                => gateOut.render = "children"
           /\ (GateAuthenticated /\ user.role \notin {"ADMIN", "SUPERADMIN"})
                => /\ gateOut.render = "Navigate"
                   /\ gateOut.to = "/"

C12_Witness ==
    /\ GateRendered /\ gateProps.requireAdmin /\ ~gateProps.requireSuperAdmin
    /\ GateAuthenticated /\ user.role = "USER"
    /\ gateOut.to = "/"

\* C13: on a route that requires superadmin the gate admits exactly the
\* Authenticated SUPERADMIN; an Authenticated USER or ADMIN is redirected
\* to the root.
C13_SuperAdminOnly ==
    (GateRendered /\ gateProps.requireSuperAdmin)
        => /\ gateOut.render = "children"
                <=> (GateAuthenticated /\ user.role = "SUPERADMIN")
           /\ (GateAuthenticated /\ user.role \in {"USER", "ADMIN"})
                => /\ gateOut.render = "Navigate"
                   /\ gateOut.to = "/"

C13_Witness ==
    /\ GateRendered /\ gateProps.requireSuperAdmin /\ ~gateProps.requireAdmin
    /\ GateAuthenticated /\ user.role = "ADMIN"
    /\ gateOut.to = "/"

\* C14: an Authenticated SUPERADMIN is admitted whatever the route
\* requires: nothing, admin, superadmin, or both.
C14_SuperAdminAdmitted ==
    (GateRendered /\ GateAuthenticated /\ user.role = "SUPERADMIN")
        => gateOut.render = "children"

C14_Witness ==
    /\ GateRendered /\ GateAuthenticated /\ user.role = "SUPERADMIN"
    /\ gateProps.requireAdmin /\ gateProps.requireSuperAdmin
    /\ gateOut.render = "children"

\* C15: while the controller is Initializing the gate returns the waiting
\* indicator and nothing else, for every requirement and every identity:
\* no protected content, no redirect.
C15_InitializingWaits ==
    (GateRendered /\ isLoading)
        => /\ gateOut.render = "spinner"
           /\ gateOut.to = Null

C15_Witness ==
    /\ GateRendered /\ isLoading
    /\ user = NullUser /\ gateProps.requireSuperAdmin
    /\ gateOut.render = "spinner"

C17_SuperAdminAllTenants ==
    (sent.kind = "analytics" /\ user.role = "SUPERADMIN")
        => sent.customerId = Null

C17_Witness ==
    /\ sent.kind = "analytics" /\ user.role = "SUPERADMIN"
    /\ user.customerId = "c1"
    /\ sent.customerId = Null

\* --------------------------------------------------- claims C18 - C20
\* A call of the mounted page instance is still pending.
ViewPending == \E q \in BagToSet(inflight) : q.mounted

\* The outcome is a failure of the fetch that is not an authority
\* rejection: a backend error or no response.
FetchFailure(status) == status \notin {"200", "401"}

\* C18: a response of an analytics fetch made for an earlier selection
\* is ignored: whenever the page shows its data and none of its calls is
\* pending, the data shown is the data fetched for the selected range.
C18_LatestSelectionShown ==
    (SelectorShown /\ settling = Idle /\ ~ViewPending)
        => analyticsData = dateRange

\* C19: a failed analytics fetch (backend failure other than 401, or no
\* response) leaves the stored view model and the session as they were:
\* neither the response hook nor the catch branch of loadAnalytics
\* changes analyticsData, the store or the identity; the catch branch
\* only records the error and ends loading.
C19_FailedFetchKeepsViewModel ==
    [][/\ (HookRuns /\ settling'.req.kind = "analytics"
              /\ FetchFailure(settling'.resp.status))
            => /\ analyticsData' = analyticsData
               /\ lsToken' = lsToken /\ lsUser' = lsUser /\ user' = user
               /\ hrefTarget' = hrefTarget
       /\ (Continues /\ settling.req.kind = "analytics"
              /\ FetchFailure(settling.resp.status))
            => /\ analyticsData' = analyticsData
               /\ lsToken' = lsToken /\ lsUser' = lsUser /\ user' = user
               /\ dateRange' = dateRange
               /\ settling.req.mounted => (error' # Null /\ ~loading')]_allVars

C19_Witness ==
    /\ location = "/"
    /\ settling = Idle
    /\ ~loading
    /\ error = "server-message"
    /\ analyticsData = "30days" /\ dateRange = "7days"
    /\ lsToken # Null /\ hrefTarget = Null

\* C20: after a failed analytics fetch the user can fetch again by
\* selecting a date range, and the page is still behind an admitting gate
\* with the Header's navigation: in every state where the page shows a
\* failure (no fetch running, no redirect pending, a request slot free)
\* handleDateRangeChange can run.
C20_RetryBySelecting ==
    (location \in ViewPages /\ settling = Idle /\ hrefTarget = Null
       /\ ~loading /\ error # Null /\ HasFree)
        => /\ ENABLED HandleDateRangeChange
           /\ Rendered = "children"

\* --------------------------------------------------- claims C21 - C30
\* The local calendar date of the clock.
Today == FormatDate(now, tz)

\* C21: the resolved range is the function of selector and clock the
\* specification gives: 7days and 30days run from N days before today to
\* today, thismonth and thisyear from the first to the last day of
\* today's month or year, alltime from 2024-01-01 to today; on
\* 2025-03-15 thismonth is [2025-03-01, 2025-03-31] and 7days begins on
\* 2025-03-08.
C21_DateRangeResolution ==
    startDate # NoDate
        => /\ dateRange = "7days"
                => /\ startDate = CivilDate(LocalDay(now, tz) - 7)
                   /\ endDate = Today
           /\ dateRange = "30days"
                => /\ startDate = CivilDate(LocalDay(now, tz) - 30)
                   /\ endDate = Today
           /\ dateRange = "thismonth"
                => /\ startDate = <<Today[1], Today[2], 1>>
                   /\ endDate = <<Today[1], Today[2],
                                  DaysInMonth(Today[1], Today[2])>>
           /\ dateRange = "thisyear"
                => /\ startDate = <<Today[1], 1, 1>>
                   /\ endDate = <<Today[1], 12, 31>>
           /\ dateRange = "alltime"
                => /\ startDate = <<2024, 1, 1>>
                   /\ endDate = Today
           /\ (Today = <<2025, 3, 15>> /\ dateRange = "thismonth")
                => startDate = <<2025, 3, 1>> /\ endDate = <<2025, 3, 31>>
           /\ (Today = <<2025, 3, 15>> /\ dateRange = "7days")
                => startDate = <<2025, 3, 8>> /\ endDate = <<2025, 3, 15>>


\* The fields of the view model of a page, by kind.
MappingFields(path) ==
    {"usageByVendor", "usageByModel", "usageByApiType"}
    \cup (IF path = "/" THEN {}
          ELSE {"usageByRegion", "usageByEndpoint", "usageByUserRole"})

SequenceFields(path) ==
    {"timeSeriesData", "topCustomers"}
    \cup (IF path = "/" THEN {} ELSE {"anomalies"})

NestedFields(path) ==
    IF path = "/" THEN {}
    ELSE {"growthMetrics", "predictions", "efficiencyMetrics", "seasonality"}

SeriesFields(path) ==
    IF path = "/" THEN DashboardSeriesFields ELSE AnalyticsSeriesFields

\* The view model has been produced from the payload.
Normalized == ~loading

\* C22: for the payload {} and for a payload with any fields absent, the
\* view model has every field: the summary's numbers, the mappings, the
\* sequences and the nested objects are all there, a number the payload
\* leaves out is 0, a mapping or a nested object it leaves out is the
\* empty structure, a sequence it leaves out is the empty sequence, and
\* the numbers an item or a customer leaves out are 0.
C22_AbsentFieldsDefaulted ==
    Normalized
        => /\ DOMAIN analyticsData =
                  {"summary"} \cup MappingFields(location)
                  \cup SequenceFields(location) \cup NestedFields(location)
           /\ DOMAIN analyticsData.summary = SummaryFields
           /\ \A k \in SummaryFields :
                  ~Has(payload, k) => analyticsData.summary[k] = 0
           /\ \A k \in MappingFields(location) \cup SequenceFields(location)
                       \cup NestedFields(location) :
                  ~Has(payload, k) => analyticsData[k] = << >>
           /\ \A i \in 1 .. Len(analyticsData.timeSeriesData) :
                  \A k \in SeriesFields(location) :
                      /\ Has(analyticsData.timeSeriesData[i], k)
                      /\ ~Has(payload.timeSeriesData[i], k)
                             => analyticsData.timeSeriesData[i][k] = 0
           /\ \A i \in 1 .. Len(analyticsData.topCustomers) :
                  /\ DOMAIN analyticsData.topCustomers[i] =
                         {"customerName", "totalCost", "eventCount"}
                  /\ ~Has(payload.topCustomers[i], "cost")
                         => analyticsData.topCustomers[i].totalCost = 0
                  /\ ~Has(payload.topCustomers[i], "events")
                         => analyticsData.topCustomers[i].eventCount = 0

\* The empty payload has been normalized on the Analytics page.
C22_Witness ==
    /\ Normalized
    /\ DOMAIN payload = {}
    /\ location = "/analytics"
    /\ analyticsData.summary.totalCost = 0
    /\ analyticsData.growthMetrics = << >>

\* C23 as stated: normalizing the normalizer's result again gives the same
\* result.
C23_Idempotent ==
    Normalized => Normalize(location, analyticsData) = analyticsData

\* C23: no default is substituted where the payload has a value: every
\* field of the view model carries the value the payload has for it, the
\* customers under the view model's names (customerName for a non-empty
\* organizationName, totalCost for cost, eventCount for events).
C23_PresentValuesKept ==
    Normalized
        => /\ \A k \in SummaryFields :
                  Has(payload, k) => analyticsData.summary[k] = payload[k]
           /\ \A k \in MappingFields(location) \cup NestedFields(location)
                       \cup (SequenceFields(location)
                                \ {"timeSeriesData", "topCustomers"}) :
                  Has(payload, k) => analyticsData[k] = payload[k]
           /\ \A i \in 1 .. Len(analyticsData.timeSeriesData) :
                  \A k \in {"date"} \cup SeriesFields(location) :
                      Has(payload.timeSeriesData[i], k)
                          => analyticsData.timeSeriesData[i][k] =
                                 payload.timeSeriesData[i][k]
           /\ \A i \in 1 .. Len(analyticsData.topCustomers) :
                  LET customer == payload.topCustomers[i]
                      shown == analyticsData.topCustomers[i]
                  IN /\ customer.organizationName # ""
                            => shown.customerName = customer.organizationName
                     /\ Has(customer, "cost") => shown.totalCost = customer.cost
                     /\ Has(customer, "events")
                            => shown.eventCount = customer.events

\* The fully populated payload has been normalized on the Analytics page.
C23_Witness ==
    /\ Normalized
    /\ payload = FullPayload
    /\ location = "/analytics"
    /\ analyticsData.topCustomers[1].customerName = "Acme"
    /\ analyticsData.summary.totalEvents = 40

\* a / b + c / d
AddRatio(r, q) == Ratio(r.num * q.den + q.num * r.den, r.den * q.den)

RECURSIVE SumRatios(_, _)
SumRatios(chart, keys) ==
    IF keys = {} THEN Ratio(0, 1)
    ELSE LET k == CHOOSE x \in keys : TRUE
         IN AddRatio(chart[k], SumRatios(chart, keys \ {k}))

\* The chart holds, for every category of the mapping, 100 * count / total
\* (0 where the total is 0), and the shares of a positive total add up to
\* 100.
IsShares(chart, mapping) ==
    /\ DOMAIN chart = DOMAIN mapping
    /\ \A k \in DOMAIN mapping :
           IF Total(mapping) > 0
           THEN chart[k].num * Total(mapping) = 100 * mapping[k] * chart[k].den
           ELSE chart[k].num = 0
    /\ Total(mapping) > 0
           => SumRatios(chart, DOMAIN chart).num =
                  100 * SumRatios(chart, DOMAIN chart).den

\* C24: on the Dashboard and on the Analytics page, the vendor, model and
\* apiType charts hold for every category its share 100 * count / total of
\* the payload's mapping, the shares of a positive total add up to 100,
\* and every share of a total of 0 is 0.
C24_CategoryShares ==
    display # << >>
        => /\ IsShares(display.vendorData, OrEmpty(payload, "usageByVendor"))
           /\ IsShares(display.modelData, OrEmpty(payload, "usageByModel"))
           /\ IsShares(display.apiTypeData, OrEmpty(payload, "usageByApiType"))

\* C25: the profit margin, the growth metrics and the predictions are in
\* the view model as the payload supplies them, and are 0 where the
\* payload leaves them out.
C25_PreAggregatedValues ==
    Normalized
        => /\ analyticsData.summary.profitMargin =
                  (IF Has(payload, "profitMargin") THEN payload.profitMargin
                   ELSE 0)
           /\ location = "/analytics"
                  => /\ \A k \in GrowthFields :
                            /\ Has(analyticsData.growthMetrics, k)
                            /\ analyticsData.growthMetrics[k] =
                                   OrZero(OrEmpty(payload, "growthMetrics"), k)
                     /\ \A k \in PredictionFields :
                            /\ Has(analyticsData.predictions, k)
                            /\ analyticsData.predictions[k] =
                                   OrZero(OrEmpty(payload, "predictions"), k)

\* The number of customers the page lists.
TopCustomers(path) ==
    IF path = "/" THEN DashboardTopCustomers ELSE AnalyticsTopCustomers

\* C26: the view model's topCustomers has the length of the payload's
\* list and holds the image of its i-th customer at position i; the card
\* lists the first 3 (Dashboard) or 5 (Analytics) of them, in that order.
C26_TopCustomersOrder ==
    Normalized
        => LET source == OrEmpty(payload, "topCustomers")
               mapped == analyticsData.topCustomers
           IN /\ Len(mapped) = Len(source)
              /\ \A i \in 1 .. Len(source) : mapped[i] = Customer(source[i])
              /\ (display # << >> /\ TopCustomersShown)
                     => /\ Len(display.topCustomers) =
                               (IF Len(mapped) < TopCustomers(location)
                                THEN Len(mapped) ELSE TopCustomers(location))
                        /\ \A i \in 1 .. Len(display.topCustomers) :
                               display.topCustomers[i] = mapped[i]

\* A list longer than either page shows, with different customers in the
\* first two places, is listed on the Analytics page.
C26_Witness ==
    /\ display # << >>
    /\ TopCustomersShown
    /\ location = "/analytics"
    /\ Has(payload, "topCustomers")
    /\ Len(payload.topCustomers) = MaxCustomers
    /\ payload.topCustomers[1] = Unnamed
    /\ payload.topCustomers[2] = Acme
    /\ Len(display.topCustomers) = AnalyticsTopCustomers
    /\ display.topCustomers[2].customerName = "Acme"

\* The gate has the flags the App gives the route of the location.
GateOfRoute ==
    gateProps = [requireAdmin |-> RequireAdmin(location),
                 requireSuperAdmin |-> RequireSuperAdmin(location)]

\* C27: for an Authenticated identity of any role and any protected path
\* behind the gate the App puts there, the Header offers the path to the
\* role exactly if the gate renders the page.
C27_NavigationMatchesGate ==
    (GateRendered /\ GateAuthenticated /\ GateOfRoute)
        => (location \in HeaderNavItems(user.role)
                <=> gateOut.render = "children")

\* The admin at /customers: not offered, not rendered.
C27_Witness ==
    /\ GateRendered
    /\ GateAuthenticated
    /\ GateOfRoute
    /\ user.role = "ADMIN"
    /\ location = "/customers"
    /\ location \notin HeaderNavItems(user.role)
    /\ gateOut = Element("Navigate", "/", Null, TRUE)

\* An analytics fetch of the mounted page instance has not settled: it
\* is on the wire, or its response is with the hook and loadAnalytics has
\* not continued yet.
AnalyticsFetchPending ==
    \/ \E q \in BagToSet(inflight) : q.kind = "analytics" /\ q.mounted
    \/ settling # Idle /\ settling.req.kind = "analytics"
           /\ settling.req.mounted

\* C29: on the Dashboard the loading flag is true while an analytics
\* fetch started by loadAnalytics has not settled, and false once all of
\* them have.
C29_LoadingWhileFetching ==
    location = "/" => (loading <=> AnalyticsFetchPending)

\* The dates the chip shows.
ShownRange == [start |-> startDate, end |-> endDate]

\* C30: whenever the Dashboard shows a view model (not loading, no error,
\* data present), the data was fetched with the start and end date the
\* chip shows, and these are the dates of the selected dateRange.
C30_DisplayedRangeMatchesData ==
    (location = "/" /\ SelectorShown)
        => /\ CalculateDateRange(analyticsData, now, tz) = ShownRange
           /\ ShownRange = CalculateDateRange(dateRange, now, tz)

\* C28: every events request that loadEvents builds for an identity whose
\* role is not SUPERADMIN carries the identity's own tenant as customerId,
\* whatever the filters hold; for SUPERADMIN it carries the customerId of
\* the filters.
C28_EventsTenantScope ==
    [][(Sends /\ sent'.kind = "events" /\ user # NullUser)
         => sent'.customerId =
                (IF user.role # "SUPERADMIN" THEN user.customerId
                 ELSE filters'.customerId)]_allVars

====
